---- MODULE Spec2Model ----
(***************************************************************************)
(* Model of libcef/browser/net_service/browser_urlrequest_impl.cc:         *)
(* the request registry (RequestManager), the identifier allocator         *)
(* (MakeRequestID) and the per-request state machine                       *)
(* (CefBrowserURLRequest::Context) driven through its public handle.       *)
(*                                                                         *)
(* One handle is modelled.  The caller keeps a reference to it, so the     *)
(* Context outlives its own teardown.  A handler is one action; the        *)
(* client's behaviour inside a callback (it may call Cancel on the handle) *)
(* is an input of the action.  The SimpleURLLoader is the environment.     *)
(***************************************************************************)
EXTENDS Integers, Sequences, FiniteSets, TLC

\* ------------------------------------------------------------------ bounds
MaxStarts == 2
MaxChunks == 1
MaxProgress == 1
MaxBody == 1

\* --------------------------------------------------------------- constants
kInitialRequestID == -2
kMaxRetries == 2
Int32Max == 2147483647
Int32Min == -Int32Max - 1

UR_IO_PENDING == "UR_IO_PENDING"
UR_SUCCESS == "UR_SUCCESS"
UR_FAILED == "UR_FAILED"
UR_CANCELED == "UR_CANCELED"

ERR_NONE == "ERR_NONE"
ERR_ABORTED == "ERR_ABORTED"
ERR_FAILED == "ERR_FAILED"

UR_FLAG_ALLOW_STORED_CREDENTIALS == "ALLOW_STORED_CREDENTIALS"
UR_FLAG_STOP_ON_REDIRECT == "STOP_ON_REDIRECT"
UR_FLAG_REPORT_UPLOAD_PROGRESS == "REPORT_UPLOAD_PROGRESS"
UR_FLAG_NO_DOWNLOAD_DATA == "NO_DOWNLOAD_DATA"
UR_FLAG_NO_RETRY_ON_5XX == "NO_RETRY_ON_5XX"

kContentTypeApplicationFormURLEncoded == "application/x-www-form-urlencoded"

\* URLs: a redirect target, and what the loader's GetFinalURL() returns.
URL_REDIRECT == "redirect"
URL_FINAL == "final"

\* Client callbacks.
CB_UPLOAD == "OnUploadProgress"
CB_DOWNLOAD == "OnDownloadProgress"
CB_DATA == "OnDownloadData"
CB_COMPLETE == "OnRequestComplete"
Callbacks == {CB_UPLOAD, CB_DOWNLOAD, CB_DATA, CB_COMPLETE}

\* The handle and its client, as stored in a registry entry.
TheRequest == "request"
TheClient == "client"

VARIABLES
  ctx,           \* the members of CefBrowserURLRequest::Context
  map_,          \* RequestManager::map_ : request id -> (request, client)
  request_id,    \* the static counter of MakeRequestID
  ui_tasks,      \* GetURLLoaderFactoryGetterOnUIThread tasks posted to the UI thread
  task_queue,    \* tasks posted to the originating thread's task runner (FIFO)
  loader,        \* the SimpleURLLoader object created for the request
  obs,           \* what has been observed: callbacks, assertion failures, crash
  calls,         \* numbers of Start and Cancel calls made through the handle
  dcheck_is_on,  \* the build: DCHECK_IS_ON()
  reg            \* threads inside RequestManager (RegistrySpec only)

vars == <<ctx, map_, request_id, ui_tasks, task_queue, loader, obs, calls,
          dcheck_is_on, reg>>

\* ------------------------------------------------------------- RequestManager
\* std::map::find
MapFind(m, id) == id \in DOMAIN m

\* std::map::insert: an existing key keeps its value.
MapInsert(m, id, entry) ==
  IF MapFind(m, id) THEN m
  ELSE [i \in DOMAIN m \cup {id} |-> IF i = id THEN entry ELSE m[i]]

\* std::map::erase of an element that was found.
MapErase(m, id) == [i \in DOMAIN m \ {id} |-> m[i]]

\* RequestManager::Get: base::nullopt is <<>>.
NullOpt == <<>>
ManagerGet(m, id) ==
  IF id > kInitialRequestID THEN NullOpt
  ELSE IF MapFind(m, id) THEN m[id] ELSE NullOpt

\* CefBrowserURLRequest::FromRequestID
FromRequestID(id) == ManagerGet(map_, id)

\* ---------------------------------------------------- the world of a handler
\* A handler works on the record w: c the Context, m the registry, q the
\* originating thread's task queue, l the loader, o the observations.
\* inp is the input of the handler's run: inp.cancel_in are the callbacks in
\* which the client calls Cancel on the handle, inp.ub is the outcome of
\* undefined behaviour, should the run meet any.

\* A DCHECK: fatal when DCHECK_IS_ON(), compiled out otherwise.
DCheck(w, cond, name) ==
  IF cond THEN w
  ELSE [w EXCEPT !.o.dcheck_failed = @ \cup {name},
                 !.o.crashed = dcheck_is_on]

\* Undefined behaviour: the process dies, or goes on as if nothing happened.
Undefined(w, name, inp) ==
  [w EXCEPT !.o.undefined = @ \cup {name},
            !.o.crashed = (inp.ub = "crash")]

SetStatus(w, s) ==
  [w EXCEPT !.c.status_ = s,
            !.o.status_trace = IF w.c.status_ = s THEN @ ELSE Append(@, s)]

\* RequestManager::Add
ManagerAdd(w, id, entry) ==
  LET w1 == DCheck(w, id <= kInitialRequestID, "Add.DCHECK_LE")
      w2 == IF w1.o.crashed THEN w1
            ELSE DCheck(w1, ~MapFind(w1.m, id), "Add.DCHECK_find")
  IN IF w2.o.crashed THEN w2
     ELSE [w2 EXCEPT !.m = MapInsert(w2.m, id, entry),
                     !.o.adds = @ + 1]

\* RequestManager::Remove
ManagerRemove(w, id, inp) ==
  IF id > kInitialRequestID THEN w
  ELSE IF MapFind(w.m, id)
    THEN [w EXCEPT !.m = MapErase(w.m, id), !.o.removes = @ + 1]
    ELSE LET w1 == DCheck(w, FALSE, "Remove.DCHECK_find")
         IN IF w1.o.crashed THEN w1
            ELSE Undefined(w1, "Remove.erase_end", inp)

\* The loader object is destroyed: it delivers nothing any more.
NoLoader ==
  [alive |-> FALSE, mode |-> "none", phase |-> "none", request_id |-> 0,
   method |-> "", upload |-> "none", content_type |-> "",
   max_retries |-> 0, on_redirect |-> FALSE, on_upload |-> FALSE,
   retries |-> 0, chunks |-> 0, uploads |-> 0, downloads |-> 0,
   final_url |-> "", net_error |-> ERR_NONE, cached |-> FALSE]

\* Context::Cleanup
Cleanup(w, inp) ==
  IF w.o.crashed THEN w
  ELSE
    LET w1 == DCheck(w, w.c.url_request_, "Cleanup.DCHECK_url_request")
        w2 == IF w1.o.crashed THEN w1
              ELSE ManagerRemove([w1 EXCEPT !.o.cleanups = @ + 1],
                                 w1.c.request_id_, inp)
    IN IF w2.o.crashed THEN w2
       ELSE
         LET w3 == [w2 EXCEPT !.c.client_ = FALSE,
                              !.c.request_context_ = FALSE]
             w4 == IF ~w3.c.loader_ THEN w3
                   ELSE IF w3.c.cleanup_immediately_
                     THEN [w3 EXCEPT !.c.loader_ = FALSE,
                                     !.c.loader_factory_getter_ = FALSE,
                                     !.l = NoLoader,
                                     !.o.freed_in_callback =
                                        @ \/ w3.o.in_stream_callback]
                     ELSE [w3 EXCEPT !.c.loader_ = FALSE,
                                     !.c.loader_factory_getter_ = FALSE,
                                     !.l.phase = "done",
                                     !.q = @ \o <<[type |-> "DeleteSoon"],
                                                  [type |-> "ReleaseSoon"]>>]
         IN [w4 EXCEPT !.c.url_request_ = FALSE]

\* The condition of NotifyUploadProgressIfNecessary (line 456).
UploadNotificationDueMutant(w) == FALSE
UploadNotificationDue(w) ==
  ~w.c.got_upload_progress_complete_ /\ w.c.upload_data_size_ > 0

RECURSIVE Cancel(_, _)
RECURSIVE OnComplete(_, _, _)
RECURSIVE ClientCall(_, _, _)
RECURSIVE NotifyUploadProgressIfNecessary(_, _)

\* client_->On...(url_request_.get(), ...): the callback is recorded; the
\* client calls Cancel on the handle from inside it when inp says so.
ClientCall(w, cb, inp) ==
  IF w.o.crashed THEN w
  ELSE IF ~w.c.client_ THEN Undefined(w, "client_null", inp)
  ELSE
    LET w1 == [w EXCEPT !.o.log = Append(@, cb)]
    IN IF cb[1] \in inp.cancel_in
         THEN LET w2 == Cancel([w1 EXCEPT !.o.reentrant = TRUE],
                               [inp EXCEPT !.cancel_in = @ \ {cb[1]}])
              IN w2
         ELSE w1

\* Context::NotifyUploadProgressIfNecessary
NotifyUploadProgressIfNecessary(w, inp) ==
  IF w.o.crashed THEN w
  ELSE IF UploadNotificationDue(w)
    THEN LET w1 == ClientCall(w, <<CB_UPLOAD, w.c.upload_data_size_,
                                   w.c.upload_data_size_>>, inp)
         IN IF w1.o.crashed THEN w1
            ELSE [w1 EXCEPT !.c.got_upload_progress_complete_ = TRUE,
                            !.o.synthesized = @ + 1]
    ELSE w

\* Context::OnComplete
OnCompleteFinalize(w, success) ==
  IF w.c.status_ = UR_IO_PENDING
    THEN LET w1 == SetStatus(w, IF success THEN UR_SUCCESS ELSE UR_FAILED)
         IN [w1 EXCEPT !.c.response_.url = w.l.final_url,
                       !.c.response_.error = w.l.net_error,
                       !.c.response_was_cached_ = w.l.cached,
                       !.o.finalized = @ + 1]
    ELSE w

OnComplete(w, success, inp) ==
  IF w.o.crashed THEN w
  ELSE IF ~w.c.url_request_ THEN w
  ELSE
    LET w1 == OnCompleteFinalize(w, success)
        w2 == IF success THEN NotifyUploadProgressIfNecessary(w1, inp) ELSE w1
        w3 == ClientCall(w2, <<CB_COMPLETE>>, inp)
    IN Cleanup(w3, inp)

\* Context::Cancel
CancelGuardMutant(w) == FALSE
CancelGuard(w) == ~w.c.url_request_

Cancel(w, inp) ==
  IF w.o.crashed THEN w
  ELSE IF CancelGuard(w) THEN w
  ELSE
    LET w1 == DCheck(w, w.c.status_ = UR_IO_PENDING, "Cancel.DCHECK_status")
    IN IF w1.o.crashed THEN w1
       ELSE
         LET w2 == SetStatus(w1, UR_CANCELED)
             w3 == [w2 EXCEPT !.c.response_.error = ERR_ABORTED,
                              !.c.cleanup_immediately_ = TRUE,
                              !.o.finalized = @ + 1]
         IN OnComplete(w3, FALSE, inp)


\* Context::OnDownloadProgress
OnDownloadProgressMutant(w, current, inp) ==
  ClientCall(w, <<CB_DOWNLOAD, current, w.c.download_data_size_>>, inp)
OnDownloadProgress(w, current, inp) ==
  IF w.o.crashed THEN w
  ELSE
    LET w1 == DCheck(w, w.c.status_ = UR_IO_PENDING,
                     "OnDownloadProgress.DCHECK_status")
    IN IF w1.o.crashed THEN w1
       ELSE IF w1.c.response_.status = 0 THEN w1
       ELSE LET w2 == NotifyUploadProgressIfNecessary(w1, inp)
            IN ClientCall(w2, <<CB_DOWNLOAD, current,
                                w2.c.download_data_size_>>, inp)

\* Context::OnUploadProgress
OnUploadProgress(w, position, total, inp) ==
  LET w1 == DCheck(w, w.c.status_ = UR_IO_PENDING,
                   "OnUploadProgress.DCHECK_status")
  IN IF w1.o.crashed THEN w1
     ELSE LET w2 == [w1 EXCEPT !.c.upload_data_size_ = total,
                               !.c.got_upload_progress_complete_ =
                                  IF position = total THEN TRUE ELSE @]
          IN ClientCall(w2, <<CB_UPLOAD, position, total>>, inp)

\* Context::OnHeadersOnly.  headers is NullOpt for a null scoped_refptr.
HeadersOnlySuccess(w) == TRUE

OnHeadersOnly(w, headers, inp) ==
  LET w1 == DCheck(w, w.c.status_ = UR_IO_PENDING,
                   "OnHeadersOnly.DCHECK_status")
      \* response_->SetResponseHeaders(*headers)
      w2 == IF w1.o.crashed THEN w1
            ELSE IF headers = NullOpt
              THEN LET d == DCheck(w1, FALSE, "scoped_refptr.DCHECK_ptr")
                   IN IF d.o.crashed THEN d
                      ELSE Undefined(d, "headers_null", inp)
              ELSE [w1 EXCEPT !.c.response_.status = headers.status]
      w3 == IF w2.o.crashed THEN w2
            ELSE IF w2.c.request_.method # "HEAD"
              THEN OnDownloadProgress(
                     IF headers = NullOpt THEN w2
                     ELSE [w2 EXCEPT !.c.download_data_size_ =
                                        headers.content_length],
                     0, inp)
              ELSE w2
  IN IF w3.o.crashed THEN w3
     ELSE OnComplete([w3 EXCEPT !.c.cleanup_immediately_ = TRUE],
                     HeadersOnlySuccess(w3), inp)

\* Context::OnRedirect
OnRedirect(w, new_url, headers, inp) ==
  LET w1 == DCheck(w, w.c.status_ = UR_IO_PENDING, "OnRedirect.DCHECK_status")
  IN IF w1.o.crashed THEN w1
     ELSE Cancel([w1 EXCEPT !.c.response_.url = new_url,
                            !.c.response_.status = headers.status],
                 inp)

\* Context::OnResponseStarted
OnResponseStarted(w, final_url, headers) ==
  LET w1 == DCheck(w, w.c.status_ = UR_IO_PENDING,
                   "OnResponseStarted.DCHECK_status")
  IN IF w1.o.crashed THEN w1
     ELSE [w1 EXCEPT !.c.response_.url = final_url,
                     !.c.response_.status = headers.status,
                     !.c.download_data_size_ = headers.content_length]

\* Context::OnDataReceived; running resume lets the loader deliver more.
OnDataReceived(w, inp) ==
  LET w1 == DCheck(w, w.c.status_ = UR_IO_PENDING,
                   "OnDataReceived.DCHECK_status")
  IN IF w1.o.crashed THEN w1
     ELSE LET w2 == ClientCall(w1, <<CB_DATA>>, inp)
          IN IF w2.o.crashed \/ ~w2.l.alive THEN w2
             ELSE [w2 EXCEPT !.l.chunks = @ + 1]

\* Context::OnRetry; running start_retry restarts the load.  The
\* response-started callback was bound once (line 369): a load restarted
\* after it ran does not run it again.
OnRetry(w) ==
  LET w1 == DCheck(w, w.c.status_ = UR_IO_PENDING, "OnRetry.DCHECK_status")
  IN IF w1.o.crashed THEN w1
     ELSE [w1 EXCEPT !.l.retries = @ + 1]

\* The mime type net::GetMimeTypeFromExtension finds for the uploaded file.
FileMimeType == "text/plain"

\* The method of the transport request (lines 277-288).
EffectiveMethodMutant(request) == request.method
EffectiveMethod(request) ==
  IF request.body # "none" /\ request.method \in {"GET", "HEAD"}
    THEN "POST" ELSE request.method

\* The content type handed to the loader with the upload (lines 289-323).
UploadContentType(request) ==
  IF request.body = "file"
    THEN (IF request.content_type = "" THEN FileMimeType
          ELSE request.content_type)
  ELSE IF request.body = "bytes"
    THEN (IF request.content_type = ""
            THEN kContentTypeApplicationFormURLEncoded
          ELSE request.content_type)
  ELSE ""

\* Headers-only or streaming fetch (line 362).
HeadersOnlyModeMutant(request) ==
  UR_FLAG_NO_DOWNLOAD_DATA \in request.flags \/ request.method = "HEAD"
HeadersOnlyMode(request) ==
  UR_FLAG_NO_DOWNLOAD_DATA \in request.flags
  \/ EffectiveMethod(request) = "HEAD"

\* Context::ContinueOnOriginatingThread
ContinueGuard(w) == ~w.c.url_request_

ContinueOnOriginatingThread(w, id, loader_factory_getter, inp) ==
  IF ContinueGuard(w) THEN w
  ELSE IF ~loader_factory_getter THEN Cancel(w, inp)
  ELSE
    LET w1 == DCheck(w, w.c.status_ = UR_IO_PENDING,
                     "Continue.DCHECK_status")
        request == w.c.request_
        flags == request.flags
        method == EffectiveMethod(request)
        \* SimpleURLLoader::Create replaces (destroys) an earlier loader.
        created ==
          [alive |-> TRUE, mode |-> "none", phase |-> "none",
           request_id |-> id, method |-> method, upload |-> "none",
           content_type |-> "", max_retries |-> 0,
           on_redirect |-> FALSE, on_upload |-> FALSE,
           retries |-> 0, chunks |-> 0, uploads |-> 0, downloads |-> 0,
           final_url |-> URL_FINAL, net_error |-> ERR_NONE,
           cached |-> FALSE]
        w2 == IF w1.o.crashed THEN w1
              ELSE ManagerAdd(
                     [w1 EXCEPT !.c.loader_factory_getter_ = TRUE,
                                !.c.request_.method = method,
                                !.c.loader_ = TRUE,
                                !.c.request_id_ = id,
                                !.l = created,
                                !.o.loaders_created = @ + 1,
                                !.o.configured_from = request.method],
                     id, <<TheRequest, TheClient>>)
    IN IF w2.o.crashed THEN w2
       ELSE
         [w2 EXCEPT
            !.l.upload = IF request.body \in {"file", "bytes"}
                           THEN request.body ELSE "none",
            !.l.content_type = UploadContentType(request),
            !.c.upload_data_size_ =
               IF request.body = "bytes"
                  /\ UR_FLAG_REPORT_UPLOAD_PROGRESS \in flags
                 THEN request.body_size ELSE @,
            !.l.max_retries =
               IF UR_FLAG_NO_RETRY_ON_5XX \in flags THEN 0 ELSE kMaxRetries,
            !.l.on_redirect = UR_FLAG_STOP_ON_REDIRECT \in flags,
            !.l.on_upload = UR_FLAG_REPORT_UPLOAD_PROGRESS \in flags,
            !.l.mode = IF HeadersOnlyMode(request) THEN "headers"
                       ELSE "stream",
            !.l.phase = "run"]

\* MakeRequestID: --request_id on a 32-bit signed counter.
MakeRequestID(counter) ==
  IF counter = Int32Min THEN Int32Max ELSE counter - 1


\* ------------------------------------------------------------------- state
Flags ==
  {UR_FLAG_ALLOW_STORED_CREDENTIALS, UR_FLAG_STOP_ON_REDIRECT,
   UR_FLAG_REPORT_UPLOAD_PROGRESS, UR_FLAG_NO_DOWNLOAD_DATA,
   UR_FLAG_NO_RETRY_ON_5XX}

\* The request descriptors a caller hands to the handle.
Descriptors ==
  { r \in [url_valid : BOOLEAN, method : {"GET", "HEAD", "POST"},
           body : {"none", "bytes", "file", "multi"},
           body_size : 0..MaxBody, content_type : {"", "text/xml"},
           flags : SUBSET Flags] :
      /\ r.body = "none" => r.body_size = 0 /\ r.content_type = ""
      /\ r.body \in {"file", "multi"} => r.body_size = MaxBody }

\* The descriptors the life cycle is explored with: those that differ in
\* what the handlers read (fetch mode, HEAD, upload and its size, the flags
\* that install callbacks or allow retries).
LifecycleDescriptors ==
  { r \in Descriptors :
      /\ r.method \in {"GET", "HEAD"}
      /\ r.body \in {"none", "bytes"}
      /\ r.content_type = ""
      /\ UR_FLAG_ALLOW_STORED_CREDENTIALS \notin r.flags
      /\ ~r.url_valid => r.method = "GET" /\ r.body = "none" /\ r.flags = {} }

Inputs == [cancel_in : SUBSET Callbacks, ub : {"crash", "benign"}]
NoReentry == [cancel_in |-> {}, ub |-> "crash"]

World == [c |-> ctx, m |-> map_, q |-> task_queue, l |-> loader, o |-> obs]

Commit(w) ==
  /\ ctx' = w.c
  /\ map_' = w.m
  /\ task_queue' = w.q
  /\ loader' = w.l
  /\ obs' = [w.o EXCEPT !.in_stream_callback = FALSE]

\* The Context as its constructor leaves it (lines 114-130, 545-567).
InitContext(frame, request) ==
  [url_request_ |-> TRUE, frame_ |-> frame, request_ |-> request,
   client_ |-> TRUE, request_context_ |-> TRUE,
   loader_factory_getter_ |-> FALSE, loader_ |-> FALSE,
   request_id_ |-> 0, status_ |-> UR_IO_PENDING,
   response_ |-> [url |-> "", error |-> ERR_NONE, status |-> 0],
   response_was_cached_ |-> FALSE, upload_data_size_ |-> 0,
   download_data_size_ |-> -1, got_upload_progress_complete_ |-> FALSE,
   cleanup_immediately_ |-> FALSE]

InitObs ==
  [log |-> <<>>, status_trace |-> <<>>, finalized |-> 0,
   dcheck_failed |-> {}, undefined |-> {}, crashed |-> FALSE,
   adds |-> 0, removes |-> 0, cleanups |-> 0, synthesized |-> 0,
   loaders_created |-> 0, reentrant |-> FALSE,
   in_stream_callback |-> FALSE, freed_in_callback |-> FALSE,
   transport_result |-> "none", start_true |-> FALSE,
   start_false |-> FALSE, cancel_called |-> FALSE,
   cancel_noop |-> FALSE, redirected |-> FALSE, configured_from |-> "",
   cancel_after_start |-> FALSE]

\* A request without a frame differs from one with a frame only in that its
\* factory resolution cannot fail; it is explored for the plain descriptors.
Init ==
  /\ \E frame \in BOOLEAN, request \in LifecycleDescriptors :
       /\ ~frame => request.flags \subseteq {UR_FLAG_NO_DOWNLOAD_DATA}
       /\ ctx = InitContext(frame, request)
  /\ map_ = <<>>
  /\ request_id = kInitialRequestID
  /\ ui_tasks = 0
  /\ task_queue = <<>>
  /\ loader = NoLoader
  /\ obs = InitObs
  /\ calls = [start |-> 0]
  /\ dcheck_is_on \in BOOLEAN
  /\ reg = <<>>

Running == ~obs.crashed

\* ----------------------------------------------------------------- handle
\* CefBrowserURLRequest::Start -> Context::Start
StartPostsMutant(request) == TRUE
StartPosts(request) == request.url_valid

Start ==
  /\ Running
  /\ calls.start < MaxStarts
  /\ calls' = [calls EXCEPT !.start = @ + 1]
  /\ IF StartPosts(ctx.request_)
       THEN /\ ui_tasks' = ui_tasks + 1
            /\ obs' = [obs EXCEPT !.start_true = TRUE]
       ELSE /\ ui_tasks' = ui_tasks
            /\ obs' = [obs EXCEPT !.start_false = TRUE]
  /\ UNCHANGED <<ctx, map_, request_id, task_queue, loader, dcheck_is_on, reg>>

\* CefBrowserURLRequest::Cancel -> Context::Cancel, called by the owner of
\* the handle between two tasks of the originating thread.
CancelCall ==
  /\ Running
  /\ \E inp \in (IF ctx.url_request_ THEN Inputs ELSE {NoReentry}) :
       Commit(Cancel([World EXCEPT !.o.cancel_called = TRUE,
                                   !.o.cancel_after_start =
                                      @ \/ obs.start_true,
                                   !.o.cancel_noop = @ \/ ~ctx.url_request_],
                     inp))
  /\ UNCHANGED <<request_id, ui_tasks, calls, dcheck_is_on, reg>>

\* -------------------------------------------------------------- UI thread
\* Context::GetURLLoaderFactoryGetterOnUIThread: without a frame the getter
\* is always created; with a frame it is null when the frame has no host.
\* --request_id at the least int32_t is a signed overflow: the counter wraps
\* or the process traps.
GetURLLoaderFactoryGetterOnUIThread ==
  /\ Running
  /\ ui_tasks > 0
  /\ ui_tasks' = ui_tasks - 1
  /\ \/ /\ request_id' = MakeRequestID(request_id)
        /\ \E getter \in (IF ctx.frame_ THEN BOOLEAN ELSE {TRUE}) :
             task_queue' =
               Append(task_queue,
                      [type |-> "Continue", request_id |-> request_id',
                       loader_factory_getter |-> getter])
        /\ obs' = IF request_id = Int32Min
                    THEN [obs EXCEPT !.undefined =
                                        @ \cup {"MakeRequestID.overflow"}]
                    ELSE obs
     \/ /\ request_id = Int32Min
        /\ obs' = [obs EXCEPT !.undefined = @ \cup {"MakeRequestID.overflow"},
                              !.crashed = TRUE]
        /\ UNCHANGED <<request_id, task_queue>>
  /\ UNCHANGED <<ctx, map_, loader, calls, dcheck_is_on, reg>>

\* ------------------------------------------------- originating thread tasks
RunContinue ==
  /\ Running
  /\ task_queue # <<>>
  /\ Head(task_queue).type = "Continue"
  /\ \E inp \in (IF ctx.url_request_ THEN Inputs ELSE {NoReentry}) :
       Commit(ContinueOnOriginatingThread(
                [World EXCEPT !.q = Tail(task_queue)],
                Head(task_queue).request_id,
                Head(task_queue).loader_factory_getter, inp))
  /\ UNCHANGED <<request_id, ui_tasks, calls, dcheck_is_on, reg>>

\* task_runner_->DeleteSoon(loader_): the loader object is destroyed.
RunDeleteSoon ==
  /\ Running
  /\ task_queue # <<>>
  /\ Head(task_queue).type = "DeleteSoon"
  /\ task_queue' = Tail(task_queue)
  /\ loader' = NoLoader
  /\ UNCHANGED <<ctx, map_, request_id, ui_tasks, obs, calls, dcheck_is_on, reg>>

\* task_runner_->ReleaseSoon(loader_factory_getter_)
RunReleaseSoon ==
  /\ Running
  /\ task_queue # <<>>
  /\ Head(task_queue).type = "ReleaseSoon"
  /\ task_queue' = Tail(task_queue)
  /\ UNCHANGED <<ctx, map_, request_id, ui_tasks, loader, obs, calls,
                 dcheck_is_on, reg>>

\* ---------------------------------------------- the SimpleURLLoader's events
\* The loader calls back only while it exists and has not completed.
DeliveringMutant == Running /\ loader.alive
Delivering == Running /\ loader.alive /\ loader.phase \in {"run", "started"}

Headers == [status : {200}, content_length : {MaxChunks}]
RedirectHeaders == [status |-> 302, content_length |-> -1]

Rest == UNCHANGED <<request_id, ui_tasks, calls, dcheck_is_on, reg>>

TransportRedirect ==
  /\ Delivering
  /\ loader.on_redirect
  /\ loader.phase = "run"
  /\ \E inp \in Inputs :
       Commit(OnRedirect([World EXCEPT !.o.redirected = TRUE],
                         URL_REDIRECT, RedirectHeaders, inp))
  /\ Rest

UploadTotal ==
  IF ctx.request_.body = "bytes" THEN {ctx.request_.body_size} ELSE {MaxBody}

TransportUploadProgress ==
  /\ Delivering
  /\ loader.on_upload
  /\ loader.upload # "none"
  /\ loader.phase = "run"
  /\ loader.uploads < MaxProgress
  /\ \E inp \in Inputs, total \in UploadTotal : \E position \in 0..total :
       Commit(OnUploadProgress([World EXCEPT !.l.uploads = @ + 1],
                               position, total, inp))
  /\ Rest

TransportResponseStarted ==
  /\ Delivering
  /\ loader.mode = "stream"
  /\ loader.phase = "run"
  /\ \E headers \in Headers :
       Commit(OnResponseStarted([World EXCEPT !.l.phase = "started"],
                                loader.final_url, headers))
  /\ Rest

TransportDownloadProgress ==
  /\ Delivering
  /\ loader.mode = "stream"
  /\ loader.downloads < MaxProgress
  /\ \E inp \in Inputs :
       Commit(OnDownloadProgress([World EXCEPT !.l.downloads = @ + 1],
                                 loader.chunks, inp))
  /\ Rest

TransportDataReceived ==
  /\ Delivering
  /\ loader.mode = "stream"
  /\ loader.phase = "started"
  /\ loader.chunks < MaxChunks
  /\ \E inp \in Inputs :
       Commit(OnDataReceived([World EXCEPT !.o.in_stream_callback = TRUE],
                             inp))
  /\ Rest

TransportRetry ==
  /\ Delivering
  /\ loader.mode = "stream"
  /\ loader.retries < loader.max_retries
  /\ Commit(OnRetry([World EXCEPT !.o.in_stream_callback = TRUE]))
  /\ Rest

\* SimpleURLLoaderStreamConsumer::OnComplete(NetError() == net::OK); a load
\* succeeds only after its response has started.
TransportComplete ==
  /\ Delivering
  /\ loader.mode = "stream"
  /\ \E inp \in Inputs, cached \in BOOLEAN,
        net_error \in (IF loader.phase = "started"
                         THEN {ERR_NONE, ERR_FAILED} ELSE {ERR_FAILED}) :
       Commit(OnComplete(
                [World EXCEPT !.l.phase = "done",
                              !.l.net_error = net_error,
                              !.l.cached = cached,
                              !.o.in_stream_callback = TRUE,
                              !.o.transport_result =
                                 IF net_error = ERR_NONE THEN "ok" ELSE "failed"],
                net_error = ERR_NONE, inp))
  /\ Rest

\* The callback of DownloadHeadersOnly: the headers, or null when the load
\* failed before any were received.
TransportHeadersOnly ==
  /\ Delivering
  /\ loader.mode = "headers"
  /\ \E inp \in Inputs, cached \in BOOLEAN,
        net_error \in {ERR_NONE, ERR_FAILED} :
       \E headers \in (IF net_error = ERR_NONE THEN Headers
                       ELSE Headers \cup {NullOpt}) :
         Commit(OnHeadersOnly(
                  [World EXCEPT !.l.phase = "done",
                                !.l.net_error = net_error,
                                !.l.cached = cached,
                                !.o.transport_result =
                                   IF net_error = ERR_NONE THEN "ok"
                                   ELSE "failed"],
                  headers, inp))
  /\ Rest

Transport ==
  \/ TransportRedirect
  \/ TransportUploadProgress
  \/ TransportResponseStarted
  \/ TransportDownloadProgress
  \/ TransportDataReceived
  \/ TransportRetry
  \/ TransportComplete
  \/ TransportHeadersOnly

Next ==
  \/ Start
  \/ CancelCall
  \/ GetURLLoaderFactoryGetterOnUIThread
  \/ RunContinue
  \/ RunDeleteSoon
  \/ RunReleaseSoon
  \/ Transport

Spec == Init /\ [][Next]_vars


\* ------------------------------------------------------------ observations
\* How often the client callback cb has been invoked.
Count(cb) == Cardinality({i \in 1..Len(obs.log) : obs.log[i][1] = cb})

Terminal == ctx.status_ # UR_IO_PENDING

\* ------------------------------------------------------------------ claims

\* C1: status changes at most once: it leaves PENDING for one of SUCCESS,
\* FAILED, CANCELED and is never assigned another value afterwards, also when
\* the client calls Cancel from inside one of its callbacks.
C1_StatusChangesAtMostOnce ==
  /\ Len(obs.status_trace) <= 1
  /\ obs.status_trace # <<>> =>
       /\ ctx.status_ = obs.status_trace[1]
       /\ ctx.status_ \in {UR_SUCCESS, UR_FAILED, UR_CANCELED}

\* C2: exactly one terminal notification: on_request_complete has never been
\* invoked more than once, and a request that has left PENDING has had it
\* invoked (the handler that leaves PENDING delivers it before it returns).
C2_CompleteExactlyOnce ==
  /\ Count(CB_COMPLETE) <= 1
  /\ (Terminal /\ ~obs.crashed) => Count(CB_COMPLETE) = 1

\* C3: a Cancel called on a handle that is already torn down changes no
\* state: no callback, no status or response change, no registry removal, no
\* task posted.
C3_SecondCancelIsNoOp ==
  [][(~ctx.url_request_ /\ CancelCall) =>
       /\ UNCHANGED <<ctx, map_, task_queue, loader, request_id, ui_tasks>>
       /\ obs' = [obs EXCEPT !.cancel_called = TRUE, !.cancel_noop = TRUE,
                             !.cancel_after_start = @ \/ obs.start_true]]_vars

C3_Witness ==
  /\ obs.cancel_noop
  /\ ctx.status_ = UR_CANCELED
  /\ Count(CB_COMPLETE) = 1
  /\ obs.removes = 1

\* C4: the response is finalized (error, URL, cached flag written for the
\* terminal state) exactly once, at the first transition out of PENDING.
C4_FinalizedOnce ==
  /\ obs.finalized <= 1
  /\ Terminal => obs.finalized = 1

\* C6: every identifier in the registry maps to the live request: the
\* Context still holds its handle reference and has created a loader; no
\* entry survives the teardown.
C6_RegistryEntriesLive ==
  \A id \in DOMAIN map_ :
    /\ ctx.url_request_
    /\ ctx.loader_
    /\ map_[id] = <<TheRequest, TheClient>>

\* The request is over: terminal, completion delivered, no registry entry
\* and no loader.
TornDown ==
  /\ Terminal
  /\ Count(CB_COMPLETE) >= 1
  /\ DOMAIN map_ = {}
  /\ ~loader.alive

\* No task is posted and no started loader still owes its final report.
NothingPending ==
  /\ ui_tasks = 0
  /\ task_queue = <<>>
  /\ ~(loader.alive /\ loader.phase \in {"run", "started"})

\* C7: a request whose Start returned true is eventually terminal, has
\* delivered on_request_complete, has no registry entry and no loader, given
\* that posted tasks run and a started loader reports its result.  Stated on
\* finite runs: once every posted task has run and the loader has reported,
\* the request is torn down.
C7_QuiescentIsTornDown ==
  (obs.start_true /\ NothingPending /\ ~obs.crashed) => TornDown

\* C8 (as claimed): once Start has returned false, status and the callbacks
\* delivered never change, whatever the caller does.
C8_InvalidUrlNeverChanges ==
  [][obs.start_false =>
       ctx.status_' = ctx.status_ /\ obs.log' = obs.log]_vars

\* C8 (amended): Start with an invalid URL posts nothing and changes nothing
\* of the request; status stays PENDING and no callback fires for as long as
\* Cancel is not called on the handle.
C8_InvalidUrlUntilCancel ==
  ~ctx.request_.url_valid =>
    /\ ui_tasks = 0
    /\ task_queue = <<>>
    /\ request_id = kInitialRequestID
    /\ DOMAIN map_ = {}
    /\ ~loader.alive
    /\ ~obs.start_true
    /\ ~obs.cancel_called =>
         /\ ctx = InitContext(ctx.frame_, ctx.request_)
         /\ obs.log = <<>>

C8_Witness ==
  /\ obs.start_false
  /\ calls.start = MaxStarts
  /\ ~obs.cancel_called

\* C9: after a redirect was reported to a stop-on-redirect request, the
\* response URL is the redirect target, status is CANCELED, the error is
\* ABORTED and on_request_complete has fired exactly once; teardown does not
\* overwrite the URL.
C9_StopOnRedirect ==
  obs.redirected =>
    /\ ctx.response_.url = URL_REDIRECT
    /\ ctx.response_.status = RedirectHeaders.status
    /\ ctx.status_ = UR_CANCELED
    /\ ctx.response_.error = ERR_ABORTED
    /\ Count(CB_COMPLETE) = 1

\* C10: a failure reported by the loader ends the request as FAILED with the
\* loader's error code; SUCCESS only when the loader reported success.  Runs
\* in which the client re-enters Cancel from a callback are left aside.
C10_FailureEndsFailed ==
  ~obs.reentrant =>
    /\ (obs.transport_result = "failed" /\ Terminal) =>
         ctx.status_ = UR_FAILED /\ ctx.response_.error = ERR_FAILED
    /\ ctx.status_ = UR_SUCCESS => obs.transport_result = "ok"


\* The continuation at the head of the queue runs on a live request whose
\* factory resolution yielded nothing.
ResolutionFailed ==
  /\ task_queue # <<>>
  /\ Head(task_queue).type = "Continue"
  /\ ~Head(task_queue).loader_factory_getter
  /\ ctx.url_request_

\* C11: a continuation that finds no factory getter on a request not yet
\* canceled acts as a user Cancel: status CANCELED, error ABORTED,
\* on_request_complete once, no loader created, no registry entry added, and
\* the registry removal of the teardown removes nothing.
C11_ResolutionFailureIsCancel ==
  [][(ResolutionFailed /\ RunContinue) =>
       /\ ctx'.status_ = UR_CANCELED
       /\ ctx'.response_.error = ERR_ABORTED
       /\ Len(obs'.log) = Len(obs.log) + 1
       /\ obs'.log[Len(obs'.log)] = <<CB_COMPLETE>>
       /\ obs'.loaders_created = obs.loaders_created
       /\ obs'.adds = obs.adds
       /\ obs'.removes = obs.removes
       /\ map_' = map_]_vars

\* C12: a headers-only fetch (no-download-data flag or method HEAD) that the
\* loader reported as successful has delivered no on_download_data and
\* exactly one on_request_complete.
C12_HeadersOnlyNoData ==
  (HeadersOnlyMode(ctx.request_) /\ obs.transport_result = "ok"
   /\ ~obs.crashed) =>
    /\ Count(CB_DATA) = 0
    /\ Count(CB_COMPLETE) = 1

\* The upload notifications that came from the loader's timer, not from
\* NotifyUploadProgressIfNecessary.
TimerDriven == Count(CB_UPLOAD) - obs.synthesized

\* The client has seen exactly one on_upload_progress, with sent == total ==
\* the body size, and every on_request_complete came after it.
OneFullUploadNotification ==
  /\ Count(CB_UPLOAD) = 1
  /\ \E i \in 1..Len(obs.log) :
       /\ obs.log[i] = <<CB_UPLOAD, ctx.request_.body_size,
                         ctx.request_.body_size>>
       /\ \A j \in 1..Len(obs.log) : obs.log[j][1] = CB_COMPLETE => i < j

ConfigInit ==
  /\ \E frame \in BOOLEAN, request \in Descriptors :
       /\ request.url_valid
       /\ ctx = InitContext(frame, request)
  /\ map_ = <<>>
  /\ request_id = kInitialRequestID
  /\ ui_tasks = 0
  /\ task_queue = <<>>
  /\ loader = NoLoader
  /\ obs = InitObs
  /\ calls = [start |-> 0]
  /\ dcheck_is_on \in BOOLEAN
  /\ reg = <<>>

ConfigNext ==
  \/ Start
  \/ GetURLLoaderFactoryGetterOnUIThread
  \/ RunContinue

ConfigSpec == ConfigInit /\ [][ConfigNext]_vars

\* C14: a request that came to configuration with method GET and a single
\* byte-buffer body has method POST on the transport request and on the
\* request descriptor, and uploads with the form-urlencoded content type
\* when it supplied none, with its own content type otherwise.
C14_BytesBodyForcesPost ==
  (obs.configured_from = "GET" /\ ctx.request_.body = "bytes"
   /\ loader.alive) =>
    /\ loader.method = "POST"
    /\ ctx.request_.method = "POST"
    /\ loader.upload = "bytes"
    /\ loader.content_type =
         IF ctx.request_.content_type = ""
           THEN kContentTypeApplicationFormURLEncoded
         ELSE ctx.request_.content_type

C14_Witness ==
  /\ obs.configured_from = "GET"
  /\ ctx.request_.body = "bytes"
  /\ ctx.request_.content_type = ""
  /\ loader.alive
  /\ loader.phase = "run"
  /\ loader.method = "POST"
  /\ loader.content_type = kContentTypeApplicationFormURLEncoded

\* C15: one handle has at most one live loader and at most one registry
\* entry, whatever Start, Cancel, continuation and loader events occurred.
\* Assigning loader_ a second loader destroys the first, so the loaders are
\* never two; the registry entries, all of which refer to the handle, are
\* what is counted.
C15_AtMostOneEntry == Cardinality(DOMAIN map_) <= 1

\* AllocSpec: the UI thread hands out identifiers.  The counter of
\* MakeRequestID is static: it starts at kInitialRequestID and, late in the
\* life of the process, has come close to the least int32_t.
AllocStarts == {kInitialRequestID, Int32Min + 1}

AllocInit ==
  /\ \E frame \in BOOLEAN, request \in LifecycleDescriptors :
       /\ request.url_valid
       /\ ctx = InitContext(frame, request)
  /\ map_ = <<>>
  /\ request_id \in AllocStarts
  /\ ui_tasks = 0
  /\ task_queue = <<>>
  /\ loader = NoLoader
  /\ obs = InitObs
  /\ calls = [start |-> 0]
  /\ dcheck_is_on \in BOOLEAN
  /\ reg = <<>>

AllocNext ==
  \/ Start
  \/ GetURLLoaderFactoryGetterOnUIThread

AllocSpec == AllocInit /\ [][AllocNext]_vars

\* The identifiers MakeRequestID has returned, in the order of the calls:
\* each was posted with its continuation.
Returned == [i \in 1..Len(task_queue) |-> task_queue[i].request_id]

\* C16: MakeRequestID returns a fresh value on each call: every value is
\* below kInitialRequestID (the first one just below it), each later value
\* is smaller than the one before, no value is returned twice, and the call
\* never fails.
C16_FreshDecreasingIds ==
  /\ \A i \in 1..Len(Returned) : Returned[i] < kInitialRequestID
  /\ \A i, j \in 1..Len(Returned) : i < j => Returned[j] < Returned[i]
  /\ (Returned # <<>> /\ request_id + Len(Returned) = kInitialRequestID) =>
       Returned[1] = kInitialRequestID - 1
  /\ "MakeRequestID.overflow" \notin obs.undefined

\* Cancel was called on a started request for which no continuation had
\* created a loader.
CanceledBeforeContinuation ==
  /\ obs.cancel_after_start
  /\ obs.loaders_created = 0
  /\ ~obs.crashed

\* Canceled, with one on_request_complete, no loader and no registry entry.
CanceledOnce ==
  /\ ctx.status_ = UR_CANCELED
  /\ Count(CB_COMPLETE) = 1
  /\ ~loader.alive
  /\ obs.adds = 0
  /\ map_ = <<>>

\* C17: a Cancel between a successful Start and its continuation drives the
\* request to CANCELED with one on_request_complete, and the continuation
\* that runs afterwards changes nothing: no loader, no registry entry, no
\* state change, no callback.
C17_CancelBeforeContinuation ==
  [][/\ (~ctx.url_request_ /\ RunContinue) =>
          UNCHANGED <<ctx, map_, loader, obs>>
     /\ CanceledBeforeContinuation' => CanceledOnce']_vars

\* C18: whenever Cancel gets past its guard the status is PENDING: the
\* DCHECK_EQ(status_, UR_IO_PENDING) of Cancel never fails, also when the
\* client calls Cancel from inside one of its callbacks.
C18_CancelRequiresPending == "Cancel.DCHECK_status" \notin obs.dcheck_failed

\* C19: OnHeadersOnly, OnRedirect, OnResponseStarted, OnUploadProgress,
\* OnDownloadProgress, OnDataReceived and OnRetry are entered only while the
\* status is PENDING: their DCHECK_EQ(status_, UR_IO_PENDING) never fails,
\* and a loader that can still deliver belongs to a PENDING request.
PendingHandlers ==
  {"OnHeadersOnly.DCHECK_status", "OnRedirect.DCHECK_status",
   "OnResponseStarted.DCHECK_status", "OnUploadProgress.DCHECK_status",
   "OnDownloadProgress.DCHECK_status", "OnDataReceived.DCHECK_status",
   "OnRetry.DCHECK_status"}

C19_HandlersEnteredPending ==
  /\ obs.dcheck_failed \cap PendingHandlers = {}
  /\ Delivering => ctx.status_ = UR_IO_PENDING

C19_Witness ==
  /\ ctx.status_ = UR_SUCCESS
  /\ Count(CB_DATA) >= 1
  /\ Count(CB_DOWNLOAD) >= 1
  /\ loader.alive
  /\ task_queue # <<>>
  /\ Head(task_queue).type = "DeleteSoon"

\* C20: the loader is released synchronously only on the headers-only,
\* redirect and Cancel paths, and is released by a later task when teardown
\* is reached from the stream consumer's completion: the loader object is
\* never destroyed while one of its stream-consumer callbacks
\* (OnDataReceived, OnComplete, OnRetry) is executing.
C20_LoaderOutlivesStreamCallback == ~obs.freed_in_callback

\* The step has forwarded an on_download_progress to the client.
DownloadForwarded == Count(CB_DOWNLOAD)' > Count(CB_DOWNLOAD)

\* Among the callbacks of the step, the synthesized on_upload_progress
\* (total, total) comes before every on_download_progress.
SynthesizedBeforeDownload ==
  \A j \in (Len(obs.log) + 1)..Len(obs'.log) :
    obs'.log[j][1] = CB_DOWNLOAD =>
      \E i \in (Len(obs.log) + 1)..(j - 1) :
        obs'.log[i] = <<CB_UPLOAD, ctx.upload_data_size_,
                        ctx.upload_data_size_>>

\* C21: on_download_progress is not forwarded while the response has no
\* status; when it is forwarded and a final upload notification was due, the
\* synthesized on_upload_progress(total, total) is delivered before it; the
\* synthesized notification is emitted at most once per request.
C21_DownloadProgressForwarding ==
  [][/\ DownloadForwarded => ctx'.response_.status # 0
     /\ (DownloadForwarded /\ UploadNotificationDue(World)) =>
          SynthesizedBeforeDownload
     /\ obs'.synthesized <= 1]_vars

C21_Witness ==
  /\ obs.synthesized = 1
  /\ Len(obs.log) >= 2
  /\ obs.log[1][1] = CB_UPLOAD
  /\ obs.log[2][1] = CB_DOWNLOAD
  /\ ctx.response_.status # 0

\* The loader has been configured for the request as it was submitted (the
\* first configuration) and has started its fetch.
FirstConfigured ==
  /\ loader.alive
  /\ loader.phase = "run"
  /\ obs.loaders_created = 1

\* C22 (as claimed): the fetch is headers-only when no-download-data is set
\* or the submitted method is HEAD, streaming otherwise, for every
\* combination of method, flags and body.
C22_ModeBySubmittedMethod ==
  FirstConfigured =>
    loader.mode =
      IF UR_FLAG_NO_DOWNLOAD_DATA \in ctx.request_.flags
         \/ obs.configured_from = "HEAD"
        THEN "headers" ELSE "stream"

\* C22 (amended): the fetch is headers-only when no-download-data is set or
\* the method after the body rewrite is HEAD, streaming otherwise; a HEAD
\* request that carries a body has become POST and is fetched as a stream
\* unless no-download-data is set.
C22_ModeByEffectiveMethod ==
  FirstConfigured =>
    /\ loader.mode =
         IF UR_FLAG_NO_DOWNLOAD_DATA \in ctx.request_.flags
            \/ loader.method = "HEAD"
           THEN "headers" ELSE "stream"
    /\ loader.method = ctx.request_.method
    /\ loader.method =
         IF ctx.request_.body # "none"
            /\ obs.configured_from \in {"GET", "HEAD"}
           THEN "POST" ELSE obs.configured_from

C22_Witness ==
  /\ FirstConfigured
  /\ obs.configured_from = "HEAD"
  /\ ctx.request_.body = "bytes"
  /\ UR_FLAG_NO_DOWNLOAD_DATA \notin ctx.request_.flags
  /\ loader.method = "POST"
  /\ loader.mode = "stream"

\* C23: the assertions of the registry and of the teardown hold in every
\* run: Add never finds its identifier present, Remove never misses an
\* identifier at or below the boundary, Cleanup is never entered with the
\* handle reference cleared and runs at most once per request.
C23_RegistryAssertionsHold ==
  /\ obs.dcheck_failed \cap {"Add.DCHECK_LE", "Add.DCHECK_find",
                              "Remove.DCHECK_find",
                              "Cleanup.DCHECK_url_request"} = {}
  /\ obs.cleanups <= 1

\* C24: a client callback is invoked only while the Context holds its
\* client reference: client_ is never dereferenced after the teardown has
\* cleared it, also for the second of two callbacks in a row when the
\* client calls Cancel from inside the first.
C24_ClientHeldAtCallback == "client_null" \notin obs.undefined

\* Posted tasks run, and a started loader reports its result.
Fairness ==
  /\ WF_vars(GetURLLoaderFactoryGetterOnUIThread)
  /\ WF_vars(RunContinue)
  /\ WF_vars(RunDeleteSoon)
  /\ WF_vars(RunReleaseSoon)
  /\ WF_vars(TransportComplete)
  /\ WF_vars(TransportHeadersOnly)

LiveSpec == Init /\ [][Next]_vars /\ Fairness


\* ---------------------------------------------- RequestManager under threads
\* RegistrySpec: threads call Add, Remove and Get concurrently.  Each call is
\* followed through its lock: the call, base::AutoLock, the statements under
\* the lock, the end of the scope.  As in the program an identifier comes
\* from MakeRequestID and is added once, by the thread that removes it later;
\* Get is called by any thread with any identifier.
NumThreads == 2
MaxAdds == 2

Threads == 1..NumThreads
LookupIds == (kInitialRequestID - MaxAdds - 1)..0

NoGet == [id |-> 0, result |-> NullOpt, seen |-> "above"]

InitThread ==
  [pc |-> "idle", op |-> "none", id |-> 0, found |-> FALSE,
   last_get |-> NoGet]

InitReg ==
  [lock |-> 0,
   th |-> [t \in Threads |-> InitThread],
   phase |-> [id \in LookupIds |-> "none"],
   owner |-> [id \in LookupIds |-> 0]]

\* The entry the owner of id registers.
EntryOf(id) == <<reg.owner[id], id>>

\* base::AutoLock: lock_ is acquired when it is free.
LockFreeMutant(r) == TRUE
LockFree(r) == r.lock = 0

InCritical(t) ==
  reg.th[t].pc \in {"add_insert", "remove_find", "remove_erase", "get_find",
                    "unlock"}

\* Two threads inside the table at once are a data race on std::map.
Racing(t) == \E u \in Threads \ {t} : InCritical(u)

RegUnchanged ==
  UNCHANGED <<ctx, ui_tasks, task_queue, loader, obs, calls, dcheck_is_on>>

\* A thread calls RequestManager::Add with a freshly made identifier.
RegCallAdd(t) ==
  /\ reg.th[t].pc = "idle"
  /\ request_id > kInitialRequestID - MaxAdds
  /\ request_id' = MakeRequestID(request_id)
  /\ reg' = [reg EXCEPT !.th[t].pc = "add_lock",
                        !.th[t].last_get = NoGet,
                        !.th[t].op = "Add",
                        !.th[t].id = request_id',
                        !.phase[request_id'] = "adding",
                        !.owner[request_id'] = t]
  /\ UNCHANGED map_
  /\ RegUnchanged

\* A thread calls RequestManager::Remove: with an identifier it has added,
\* or with 0, the identifier of a Context that was never registered.
RegCallRemove(t) ==
  /\ reg.th[t].pc = "idle"
  /\ \E id \in {i \in LookupIds :
                  i = 0 \/ (reg.owner[i] = t /\ reg.phase[i] = "added")} :
       IF id > kInitialRequestID
         THEN reg' = [reg EXCEPT !.th[t].last_get = NoGet]
         ELSE reg' = [reg EXCEPT !.th[t].pc = "remove_lock",
                                 !.th[t].last_get = NoGet,
                                 !.th[t].op = "Remove",
                                 !.th[t].id = id,
                                 !.phase[id] = "removing"]
  /\ UNCHANGED <<map_, request_id>>
  /\ RegUnchanged

\* A thread calls RequestManager::Get (CefBrowserURLRequest::FromRequestID).
RegCallGet(t) ==
  /\ reg.th[t].pc = "idle"
  /\ \E id \in LookupIds :
       IF id > kInitialRequestID
         THEN reg' = [reg EXCEPT !.th[t].last_get =
                                    [id |-> id, result |-> NullOpt,
                                     seen |-> "above"]]
         ELSE reg' = [reg EXCEPT !.th[t].pc = "get_lock",
                                 !.th[t].last_get = NoGet,
                                 !.th[t].op = "Get", !.th[t].id = id]
  /\ UNCHANGED <<map_, request_id>>
  /\ RegUnchanged

\* base::AutoLock lock_scope(lock_)
RegLock(t) ==
  /\ reg.th[t].pc \in {"add_lock", "remove_lock", "get_lock"}
  /\ LockFree(reg)
  /\ reg' = [reg EXCEPT !.lock = t,
                        !.th[t].pc =
                           CASE reg.th[t].pc = "add_lock" -> "add_insert"
                             [] reg.th[t].pc = "remove_lock" -> "remove_find"
                             [] OTHER -> "get_find"]
  /\ UNCHANGED <<map_, request_id>>
  /\ RegUnchanged

\* map_.insert(...); in a data race the insertion may be lost.
RegAddInsert(t) ==
  /\ reg.th[t].pc = "add_insert"
  /\ \/ map_' = MapInsert(map_, reg.th[t].id, EntryOf(reg.th[t].id))
     \/ Racing(t) /\ map_' = map_
  /\ reg' = [reg EXCEPT !.th[t].pc = "unlock"]
  /\ UNCHANGED request_id
  /\ RegUnchanged

\* it = map_.find(request_id)
RegRemoveFind(t) ==
  /\ reg.th[t].pc = "remove_find"
  /\ reg' = [reg EXCEPT !.th[t].pc = "remove_erase",
                        !.th[t].found = MapFind(map_, reg.th[t].id)]
  /\ UNCHANGED <<map_, request_id>>
  /\ RegUnchanged

\* map_.erase(it); in a data race the erasure may be lost.
RegRemoveErase(t) ==
  /\ reg.th[t].pc = "remove_erase"
  /\ \/ map_' = MapErase(map_, reg.th[t].id)
     \/ Racing(t) /\ map_' = map_
  /\ reg' = [reg EXCEPT !.th[t].pc = "unlock"]
  /\ UNCHANGED request_id
  /\ RegUnchanged

\* it = map_.find(request_id); return it->second or base::nullopt.  seen is
\* what had been called and returned for the identifier at that moment.
RegGetFind(t) ==
  /\ reg.th[t].pc = "get_find"
  /\ \E result \in {ManagerGet(map_, reg.th[t].id)}
                   \cup (IF Racing(t) THEN {NullOpt} ELSE {}) :
       reg' = [reg EXCEPT !.th[t].pc = "unlock",
                          !.th[t].last_get =
                             [id |-> reg.th[t].id, result |-> result,
                              seen |-> reg.phase[reg.th[t].id]]]
  /\ UNCHANGED <<map_, request_id>>
  /\ RegUnchanged

\* The end of lock_scope: the lock is released and the call returns.
RegUnlock(t) ==
  /\ reg.th[t].pc = "unlock"
  /\ reg' = [reg EXCEPT
               !.lock = 0,
               !.th[t].pc = "idle",
               !.th[t].op = "none",
               !.th[t].id = 0,
               !.th[t].found = FALSE,
               !.phase[reg.th[t].id] =
                  CASE reg.th[t].op = "Add" -> "added"
                    [] reg.th[t].op = "Remove" -> "removed"
                    [] OTHER -> @]
  /\ UNCHANGED <<map_, request_id>>
  /\ RegUnchanged

RegInit ==
  /\ ctx = InitContext(FALSE, CHOOSE r \in LifecycleDescriptors : ~r.url_valid)
  /\ map_ = <<>>
  /\ request_id = kInitialRequestID
  /\ ui_tasks = 0
  /\ task_queue = <<>>
  /\ loader = NoLoader
  /\ obs = InitObs
  /\ calls = [start |-> 0]
  /\ dcheck_is_on = TRUE
  /\ reg = InitReg

RegNext ==
  \E t \in Threads :
    \/ RegCallAdd(t)
    \/ RegCallRemove(t)
    \/ RegCallGet(t)
    \/ RegLock(t)
    \/ RegAddInsert(t)
    \/ RegRemoveFind(t)
    \/ RegRemoveErase(t)
    \/ RegGetFind(t)
    \/ RegUnlock(t)

RegistrySpec == RegInit /\ [][RegNext]_vars

\* What a lookup of id may return when seen is what had been called and had
\* returned for id at the moment of the lookup.
GetAgrees(id, result, seen) ==
  /\ id > kInitialRequestID => result = NullOpt
  /\ seen = "added" => result = EntryOf(id)
  /\ seen \in {"none", "removed"} => result = NullOpt
  /\ seen \in {"adding", "removing"} => result \in {NullOpt, EntryOf(id)}

\* C5: under any interleaving, a lookup of an identifier at or below the
\* boundary returns the entry that was added exactly when Add has been
\* called for it and no Remove since; a lookup above the boundary returns
\* nothing.  For a lookup that overlaps the Add or the Remove of its
\* identifier either answer is correct.
C5_RegistryLookup ==
  /\ \A t \in Threads :
       GetAgrees(reg.th[t].last_get.id, reg.th[t].last_get.result,
                 reg.th[t].last_get.seen)
  /\ \A id \in LookupIds :
       GetAgrees(id, FromRequestID(id),
                 IF id > kInitialRequestID THEN "above" ELSE reg.phase[id])

\* A lookup holds the lock and has found the entry of an added identifier
\* while another thread waits for the lock, and an identifier added earlier
\* has been removed and is no longer found.
C5_Witness ==
  \E t \in Threads, u \in Threads :
    /\ t # u
    /\ reg.th[t].pc = "unlock"
    /\ reg.th[t].last_get.seen = "added"
    /\ reg.th[t].last_get.result = EntryOf(reg.th[t].last_get.id)
    /\ reg.th[u].pc \in {"add_lock", "remove_lock", "get_lock"}
    /\ \E id \in LookupIds :
         reg.phase[id] = "removed" /\ FromRequestID(id) = NullOpt

====
